---- MODULE Spec2Model ----
(***************************************************************************)
(* Model of fastrand64-go: the SplitMix64 seed expander, the xoshiro256**  *)
(* generator (UnsafeXoshiro256ssRNG), the byte-fill routine Bytes and the  *)
(* sync.Pool backed wrapper ThreadsafePoolRNG.                             *)
(*                                                                         *)
(* A uint64 is a tuple of 8 bytes, least significant byte first, so that   *)
(* all arithmetic is done modulo 2^64 on its true width.  A uint32 is a    *)
(* tuple of 4 bytes.  An int64 is a record [neg, abs] (sign and absolute   *)
(* value), and the conversions between int64 and uint64 are the two's      *)
(* complement reinterpretations Go performs.                               *)
(***************************************************************************)
EXTENDS Integers, Sequences, FiniteSets, TLC

(***************************************************************************)
(* 64-bit machine arithmetic                                               *)
(***************************************************************************)

\* the 64-bit word given by its four 16-bit groups, most significant first
W(h3, h2, h1, h0) ==
    << h0 % 256, h0 \div 256, h1 % 256, h1 \div 256,
       h2 % 256, h2 \div 256, h3 % 256, h3 \div 256 >>

Zero64 == W(0, 0, 0, 0)
One64 == W(0, 0, 0, 1)
Max64 == W(\hFFFF, \hFFFF, \hFFFF, \hFFFF)

Pow2(k) == CASE k = 0 -> 1 [] k = 1 -> 2 [] k = 2 -> 4 [] k = 3 -> 8
             [] k = 4 -> 16 [] k = 5 -> 32 [] k = 6 -> 64 [] k = 7 -> 128
             [] k = 8 -> 256

\* bitwise operations on one bit, on a nibble (by bits) and on a byte (by
\* nibbles); the nibble tables are computed once
Xor1(a, b) == (a + b) % 2
And1(a, b) == a * b
Or1(a, b) == IF a + b > 0 THEN 1 ELSE 0

Nibble(B(_, _), a, b) ==
    B(a % 2, b % 2) + 2 * B((a \div 2) % 2, (b \div 2) % 2)
    + 4 * B((a \div 4) % 2, (b \div 4) % 2) + 8 * B(a \div 8, b \div 8)

XorTable == [a \in 0..15 |-> [b \in 0..15 |-> Nibble(Xor1, a, b)]]
AndTable == [a \in 0..15 |-> [b \in 0..15 |-> Nibble(And1, a, b)]]
OrTable == [a \in 0..15 |-> [b \in 0..15 |-> Nibble(Or1, a, b)]]

Xor8(a, b) == 16 * XorTable[a \div 16][b \div 16] + XorTable[a % 16][b % 16]
And8(a, b) == 16 * AndTable[a \div 16][b \div 16] + AndTable[a % 16][b % 16]
Or8(a, b) == 16 * OrTable[a \div 16][b \div 16] + OrTable[a % 16][b % 16]

\* F applied to the value of e (and of e1, e2): the argument is evaluated once,
\* however often F uses it
Let1(F(_), e) == CHOOSE r \in {F(v) : v \in {e}} : TRUE
Let2(F(_, _), e1, e2) == CHOOSE r \in {F(v, w) : v \in {e1}, w \in {e2}} : TRUE

\* the word whose byte i is F(i)
Word8(F(_)) == << F(1), F(2), F(3), F(4), F(5), F(6), F(7), F(8) >>

\* x ^ y, x & y, x | y on uint64
Xor64(x, y) == Let2(LAMBDA a, b : Word8(LAMBDA i : Xor8(a[i], b[i])), x, y)
And64(x, y) == Let2(LAMBDA a, b : Word8(LAMBDA i : And8(a[i], b[i])), x, y)
Or64(x, y) == Let2(LAMBDA a, b : Word8(LAMBDA i : Or8(a[i], b[i])), x, y)

\* byte i of x, zero outside the word
ByteAt(x, i) == IF i >= 1 /\ i <= Len(x) THEN x[i] ELSE 0

\* x << k and x >> k on uint64 (Go: a shift count >= 64 gives 0)
Shl64(x, k) ==
    Let1(LAMBDA a : Word8(LAMBDA i :
        ((ByteAt(a, i - (k \div 8)) * Pow2(k % 8)) % 256)
        + (ByteAt(a, i - (k \div 8) - 1) \div Pow2(8 - (k % 8)))), x)

Shr64(x, k) ==
    Let1(LAMBDA a : Word8(LAMBDA i :
        (ByteAt(a, i + (k \div 8)) \div Pow2(k % 8))
        + ((ByteAt(a, i + (k \div 8) + 1) * Pow2(8 - (k % 8))) % 256)), x)

\* bytes i.. of x + y, with carry c into byte i
RECURSIVE AddFrom(_, _, _, _)
AddFrom(x, y, i, c) ==
    IF i > Len(x) THEN << >>
    ELSE Let1(LAMBDA t : << t % 256 >> \o AddFrom(x, y, i + 1, t \div 256),
              x[i] + y[i] + c)

\* x + y modulo 2^64
Add64(x, y) == Let2(LAMBDA a, b : AddFrom(a, b, 1, 0), x, y)

\* sum over j <= i of x[j] * y[k + 1 - j]: column k of the schoolbook product
RECURSIVE MulCol(_, _, _, _)
MulCol(x, y, k, i) ==
    IF i = 0 THEN 0 ELSE x[i] * y[k + 1 - i] + MulCol(x, y, k, i - 1)

\* bytes k..n of the product x * y, with carry c into column k
RECURSIVE MulFrom(_, _, _, _, _)
MulFrom(x, y, k, c, n) ==
    IF k > n THEN << >>
    ELSE Let1(LAMBDA t : << t % 256 >> \o MulFrom(x, y, k + 1, t \div 256, n),
              MulCol(x, y, k, k) + c)

\* x * y modulo 2^64, Go's uint64 multiplication
Mul64(x, y) == Let2(LAMBDA a, b : MulFrom(a, b, 1, 0, 8), x, y)

\* the exact 128-bit product of two uint64 (16 bytes)
Wide(x) == x \o << 0, 0, 0, 0, 0, 0, 0, 0 >>
MulWide(x, y) == Let2(LAMBDA a, b : MulFrom(a, b, 1, 0, 16), Wide(x), Wide(y))

\* x < y on unsigned words of the same length, from the most significant byte
RECURSIVE LessFrom(_, _, _)
LessFrom(x, y, i) ==
    IF i = 0 THEN FALSE
    ELSE IF x[i] # y[i] THEN x[i] < y[i]
    ELSE LessFrom(x, y, i - 1)

Less64(x, y) == Let2(LAMBDA a, b : LessFrom(a, b, 8), x, y)

\* two's complement negation, -x modulo 2^64
Neg64(x) == Let1(LAMBDA a : Add64(Word8(LAMBDA i : 255 - a[i]), One64), x)

(***************************************************************************)
(* Go integer conversions                                                  *)
(***************************************************************************)

\* an int64 of the given sign and absolute value
I64(neg, abs) == [neg |-> neg, abs |-> abs]

\* uint64(v) for an int64 v: the two's complement bit pattern
Uint64OfInt64(v) == IF v.neg THEN Neg64(v.abs) ELSE v.abs

\* int64(x) for a uint64 x: negative when bit 63 is set
Int64OfUint64(x) ==
    Let1(LAMBDA a : IF a[8] >= 128 THEN I64(TRUE, Neg64(a)) ELSE I64(FALSE, a), x)

\* uint32(x) for a uint64 x: the low 4 bytes
Uint32OfUint64(x) == Let1(LAMBDA a : << a[1], a[2], a[3], a[4] >>, x)

\* uint64(r) for a uint32 r
Uint64OfUint32(r) == Let1(LAMBDA a : << a[1], a[2], a[3], a[4], 0, 0, 0, 0 >>, r)

\* byte(x) for a uint64 x: the low byte
ByteOf(x) == x[1]

(***************************************************************************)
(* fastrand64.go: rol64, Splitmix64, UnsafeXoshiro256ssRNG                 *)
(***************************************************************************)

\* rol64 that drops the bits shifted out instead of wrapping them around
rol64_NoWrap(x, k) == Shl64(x, k)

rol64(x, k) == Let1(LAMBDA a : Or64(Shl64(a, k), Shr64(a, 64 - k)), x)

GoldenGamma == W(\h9E37, \h79B9, \h7F4A, \h7C15)
MixA == W(\hBF58, \h476D, \h1CE4, \hE5B9)
MixB == W(\h94D0, \h49BB, \h1331, \h11EB)

\* Splitmix64 with the second mix round left out
Splitmix64_OneRound(index) ==
    LET z0 == Add64(index, GoldenGamma)
        z1 == Mul64(Xor64(z0, Shr64(z0, 30)), MixA)
    IN  Xor64(z1, Shr64(z1, 31))

Splitmix64(index) ==
    LET z0 == Add64(index, GoldenGamma)
        z1 == Mul64(Xor64(z0, Shr64(z0, 30)), MixA)
        z2 == Mul64(Xor64(z1, Shr64(z1, 27)), MixB)
    IN  Xor64(z2, Shr64(z2, 31))

Five == W(0, 0, 0, 5)
Nine == W(0, 0, 0, 9)

\* an UnsafeXoshiro256ssRNG struct
Xoshiro(s0, s1, s2, s3) == [s0 |-> s0, s1 |-> s1, s2 |-> s2, s3 |-> s3]

\* Uint64 with "r.s3 = r.s3 << 45" for the rotation: the top bits of s3 are lost
Uint64Step_ShiftS3(r) ==
    LET result == Mul64(rol64(Mul64(r.s1, Five), 7), Nine)
        t == Shl64(r.s1, 17)
        s2a == Xor64(r.s2, r.s0)
        s3a == Xor64(r.s3, r.s1)
        s1a == Xor64(r.s1, s2a)
        s0a == Xor64(r.s0, s3a)
        s2b == Xor64(s2a, t)
        s3b == Shl64(s3a, 45)
    IN  [result |-> result, r |-> Xoshiro(s0a, s1a, s2b, s3b)]

\* Uint64 computing its result after the state update instead of before it
Uint64Step_LateResult(r) ==
    LET t == Shl64(r.s1, 17)
        s2a == Xor64(r.s2, r.s0)
        s3a == Xor64(r.s3, r.s1)
        s1a == Xor64(r.s1, s2a)
        s0a == Xor64(r.s0, s3a)
        s2b == Xor64(s2a, t)
        s3b == rol64(s3a, 45)
        result == Mul64(rol64(Mul64(s1a, Five), 7), Nine)
    IN  [result |-> result, r |-> Xoshiro(s0a, s1a, s2b, s3b)]

\* (r *UnsafeXoshiro256ssRNG) Uint64(): the value returned and the state left
Uint64Step(r) ==
    LET result == Mul64(rol64(Mul64(r.s1, Five), 7), Nine)
        t == Shl64(r.s1, 17)
        s2a == Xor64(r.s2, r.s0)
        s3a == Xor64(r.s3, r.s1)
        s1a == Xor64(r.s1, s2a)
        s0a == Xor64(r.s0, s3a)
        s2b == Xor64(s2a, t)
        s3b == rol64(s3a, 45)
    IN  [result |-> result, r |-> Xoshiro(s0a, s1a, s2b, s3b)]

UnsafeXoshiro256ssRNG_Uint64(r) == Let1(Uint64Step, r)

\* uint64(i) for the small non-negative loop counter i of Seed
Uint64OfInt(i) == W(0, 0, 0, i)

\* a Seed loop that takes the first expansion, zero or not
SeedLoop_NoRetry(seed, i) ==
    [s |-> Splitmix64(Add64(Uint64OfInt64(seed), Uint64OfInt(i))), i |-> i + 1]

\* one loop of Seed: "for r.sK = 0; r.sK == 0; i++ { r.sK = Splitmix64(seed + i) }"
\* from counter value i; gives the word assigned last and the counter after it
RECURSIVE SeedLoop(_, _)
SeedLoop(seed, i) ==
    Let1(LAMBDA z : IF z = Zero64 THEN SeedLoop(seed, i + 1)
                    ELSE [s |-> z, i |-> i + 1],
         Splitmix64(Add64(Uint64OfInt64(seed), Uint64OfInt(i))))

\* one loop of Seed without its init statement "r.sK = 0": a word that is not
\* zero already is kept and the counter stays
SeedLoop_KeepNonZero(old, seed, i) ==
    IF old # Zero64 THEN [s |-> old, i |-> i] ELSE SeedLoop(seed, i)

\* Seed whose loops lack "r.sK = 0": "for ; r.sK == 0; i++ { ... }"
UnsafeXoshiro256ssRNG_Seed_KeepNonZero(r, seed) ==
    Let1(LAMBDA a :
      Let1(LAMBDA b :
        Let1(LAMBDA c :
          Let1(LAMBDA d : [r |-> Xoshiro(a.s, b.s, c.s, d.s), i |-> d.i],
               SeedLoop_KeepNonZero(r.s3, seed, c.i)),
          SeedLoop_KeepNonZero(r.s2, seed, b.i)),
        SeedLoop_KeepNonZero(r.s1, seed, a.i)),
      SeedLoop_KeepNonZero(r.s0, seed, 0))

\* Seed with a counter of its own, starting at 0, in each of the four loops
UnsafeXoshiro256ssRNG_Seed_ResetCounter(r, seed) ==
    Let1(LAMBDA a :
      Let1(LAMBDA b :
        Let1(LAMBDA c :
          Let1(LAMBDA d : [r |-> Xoshiro(a.s, b.s, c.s, d.s),
                           i |-> a.i + b.i + c.i + d.i],
               SeedLoop(seed, 0)),
          SeedLoop(seed, 0)),
        SeedLoop(seed, 0)),
      SeedLoop(seed, 0))

\* (r *UnsafeXoshiro256ssRNG) Seed(seed): the state left and the final counter
UnsafeXoshiro256ssRNG_Seed(r, seed) ==
    Let1(LAMBDA a :
      Let1(LAMBDA b :
        Let1(LAMBDA c :
          Let1(LAMBDA d : [r |-> Xoshiro(a.s, b.s, c.s, d.s), i |-> d.i],
               SeedLoop(seed, c.i)),
          SeedLoop(seed, b.i)),
        SeedLoop(seed, a.i)),
      SeedLoop(seed, 0))

\* NewUnsafeXoshiro256ssRNG(seed): Seed on a zero-valued struct
NewUnsafeXoshiro256ssRNG(seed) ==
    UnsafeXoshiro256ssRNG_Seed(Xoshiro(Zero64, Zero64, Zero64, Zero64), seed).r

(***************************************************************************)
(* fastrand64.go: Bytes(r, bytes)                                          *)
(* A run of Bytes is a record: r the generator state, bytes the buffer     *)
(* contents (Go index i is position i + 1), draws the number of r.Uint64() *)
(* calls made, writes the Go indices stored to, in order.                  *)
(***************************************************************************)

\* "bytes[i] |= v": a store that keeps the bits the buffer held before
Store_OrPrior(st, i, v) ==
    Let1(LAMBDA s :
           IF i >= 0 /\ i < Len(s.bytes)
           THEN [s EXCEPT !.bytes[i + 1] = Or8(@, v), !.writes = Append(@, i)]
           ELSE [s EXCEPT !.oob = TRUE, !.writes = Append(@, i)],
         st)

\* bytes[i] = v; Go panics on an index outside the slice, recorded in oob
Store(st, i, v) ==
    Let1(LAMBDA s :
           IF i >= 0 /\ i < Len(s.bytes)
           THEN [s EXCEPT !.bytes[i + 1] = v, !.writes = Append(@, i)]
           ELSE [s EXCEPT !.oob = TRUE, !.writes = Append(@, i)],
         st)

\* x := r.Uint64() inside Bytes
Draw(st) ==
    Let1(LAMBDA s :
           Let1(LAMBDA d : [s EXCEPT !.r = d.r, !.draws = @ + 1, !.x = d.result],
                UnsafeXoshiro256ssRNG_Uint64(s.r)),
         st)

\* the first loop's body storing the most significant byte first
StoreChunk_BigEndian(st, i) ==
    Let1(LAMBDA s0 :
           LET x == s0.x
               s1 == Store(s0, i, ByteOf(Shr64(x, 56)))
               s2 == Store(s1, i + 1, ByteOf(Shr64(x, 48)))
               s3 == Store(s2, i + 2, ByteOf(Shr64(x, 40)))
               s4 == Store(s3, i + 3, ByteOf(Shr64(x, 32)))
               s5 == Store(s4, i + 4, ByteOf(Shr64(x, 24)))
               s6 == Store(s5, i + 5, ByteOf(Shr64(x, 16)))
               s7 == Store(s6, i + 6, ByteOf(Shr64(x, 8)))
           IN  Store(s7, i + 7, ByteOf(x)),
         Draw(st))

\* the body of the first loop: one draw stored to bytes[i] .. bytes[i+7]
StoreChunk(st, i) ==
    Let1(LAMBDA s0 :
           LET x == s0.x
               s1 == Store(s0, i, ByteOf(x))
               s2 == Store(s1, i + 1, ByteOf(Shr64(x, 8)))
               s3 == Store(s2, i + 2, ByteOf(Shr64(x, 16)))
               s4 == Store(s3, i + 3, ByteOf(Shr64(x, 24)))
               s5 == Store(s4, i + 4, ByteOf(Shr64(x, 32)))
               s6 == Store(s5, i + 5, ByteOf(Shr64(x, 40)))
               s7 == Store(s6, i + 6, ByteOf(Shr64(x, 48)))
           IN  Store(s7, i + 7, ByteOf(Shr64(x, 56))),
         Draw(st))

\* the first loop: "for { if i == iMax { break }; ...; i += 8 }"
RECURSIVE ChunkLoop(_, _, _)
ChunkLoop(st, i, iMax) ==
    IF i = iMax THEN [st EXCEPT !.i = i]
    ELSE ChunkLoop(StoreChunk(st, i), i + 8, iMax)

\* the second loop breaking one index late: "if i > n { break }"
RECURSIVE TailLoop_OffByOne(_, _)
TailLoop_OffByOne(st, n) ==
    Let1(LAMBDA s :
           IF s.i > n THEN s
           ELSE TailLoop_OffByOne([Store(s, s.i, ByteOf(s.x)) EXCEPT
                                       !.x = Shr64(s.x, 8), !.i = s.i + 1], n),
         st)

\* the second loop without "x >>= 8"
RECURSIVE TailLoop_NoShift(_, _)
TailLoop_NoShift(st, n) ==
    Let1(LAMBDA s :
           IF s.i >= n THEN s
           ELSE TailLoop_NoShift([Store(s, s.i, ByteOf(s.x)) EXCEPT !.i = s.i + 1], n),
         st)

\* the second loop: "for { if i >= n { break }; bytes[i] = byte(x); x >>= 8; i += 1 }"
RECURSIVE TailLoop(_, _)
TailLoop(st, n) ==
    Let1(LAMBDA s :
           IF s.i >= n THEN s
           ELSE TailLoop([Store(s, s.i, ByteOf(s.x)) EXCEPT
                              !.x = Shr64(s.x, 8), !.i = s.i + 1], n),
         st)

\* Bytes(r, bytes): the whole run
Bytes(r, bytes) ==
    LET n == Len(bytes)
        iMax == n - (n % 8)
        st0 == [r |-> r, bytes |-> bytes, draws |-> 0, writes |-> << >>,
                oob |-> FALSE, x |-> Zero64, i |-> 0]
        st1 == ChunkLoop(st0, 0, iMax)
        st2 == Draw(st1)
    IN  TailLoop(st2, n)

(***************************************************************************)
(* fastrand64.go: the results of the ThreadsafePoolRNG methods             *)
(* A slice is a record [id, data]: id names its backing array (0 for one   *)
(* allocated by the call, the caller's number for a caller's buffer).      *)
(***************************************************************************)

Mask63 == W(\h7FFF, \hFFFF, \hFFFF, \hFFFF)
Mask32 == W(0, 0, \hFFFF, \hFFFF)

\* make([]byte, n)
Buffer(n, fill) == [i \in 1..n |-> fill]
Slice(id, data) == [id |-> id, data |-> data]
make(n) == Slice(0, Buffer(n, 0))

\* Int63 without the mask
ThreadsafePoolRNG_Int63_NoMask(x) == Int64OfUint64(x)

\* Int63: int64(0x7FFFFFFFFFFFFFFF & s.Uint64()), x the value s.Uint64() returned
ThreadsafePoolRNG_Int63(x) == Int64OfUint64(And64(Mask63, x))

\* Uint32n shifting the product by 31 bits instead of 32
ThreadsafePoolRNG_Uint32n_Shift31(x0, maxN) ==
    LET x == And64(x0, Mask32)
    IN  Uint32OfUint64(Shr64(Mul64(x, Uint64OfInt64(maxN)), 31))

\* Uint32n without the mask to the low 32 bits
ThreadsafePoolRNG_Uint32n_NoMask(x0, maxN) ==
    Uint32OfUint64(Shr64(Mul64(x0, Uint64OfInt64(maxN)), 32))

\* Uint32n: x0 the value s.Uint64() returned
ThreadsafePoolRNG_Uint32n(x0, maxN) ==
    LET x == And64(x0, Mask32)
    IN  Uint32OfUint64(Shr64(Mul64(x, Uint64OfInt64(maxN)), 32))

\* Bytes(n) on the instance r it got from the pool: the run and the slice returned
ThreadsafePoolRNG_Bytes(r, n) ==
    Let1(LAMBDA bytes :
           Let1(LAMBDA result : [run |-> result, ret |-> Slice(bytes.id, result.bytes)],
                Bytes(r, bytes.data)),
         make(n))

\* Read that fills and returns a slice of its own, as Bytes(n) does
ThreadsafePoolRNG_Read_Alloc(r, p) == ThreadsafePoolRNG_Bytes(r, Len(p.data))

\* Read(p) on the instance r it got from the pool: the run and the slice returned
ThreadsafePoolRNG_Read(r, p) ==
    Let1(LAMBDA result : [run |-> result, ret |-> Slice(p.id, result.bytes)],
         Bytes(r, p.data))

(***************************************************************************)
(* Inputs                                                                  *)
(***************************************************************************)

\* the longest buffer handed to Bytes on the stand-alone generator
MaxLen == 17
\* the number of Seed and Bytes calls on the stand-alone generator
MaxOps == 1
\* the number of Uint64 calls in a row on the stand-alone generator
MaxDraws == 2
\* the longest buffer a single caller hands to the wrapper
MaxPoolLen == 17
\* the number of calls a single caller makes on the wrapper
MaxSeqCalls == 2
\* the number of concurrent callers of the wrapper and of the calls they make
NThreads == 2
MaxCalls == 2
\* the number of Splitmix64 evaluations one Seed call is followed through
MaxEvals == 6
\* the number of small result values of the range reduction looked at for
\* each bound (bounds up to this number have all their results looked at)
MaxResults == 10

\* the state of Test_UnsafeXoshiro256ssRNG_UInt64
RefState ==
    Xoshiro(W(\h01d3, \h53e5, \hf399, \h3bb0), W(\h7b9c, \h0df6, \hcb19, \h3b20),
            W(\hfdfc, \haa91, \h1107, \h65b6), W(\hd2db, \h341f, \h10bb, \h232e))

\* a state whose next draw is 0xFFFFFFFFFFFFFFFF (s1 solves rol64(s1*5,7)*9 = -1)
MaxOutState ==
    Xoshiro(W(\h01d3, \h53e5, \hf399, \h3bb0), W(\h4fc7, \h1c71, \hc71c, \h71c7),
            W(\hfdfc, \haa91, \h1107, \h65b6), W(\hd2db, \h341f, \h10bb, \h232e))

\* the zero value of the struct, UnsafeXoshiro256ssRNG{}
ZeroState == Xoshiro(Zero64, Zero64, Zero64, Zero64)

\* states with a single bit set: the top bit of s1 (which s1 << 17 shifts out),
\* and the top bit of s3
SparseStates ==
    { Xoshiro(Zero64, W(\h8000, 0, 0, 0), Zero64, Zero64),
      Xoshiro(Zero64, Zero64, Zero64, W(\h8000, 0, 0, 0)) }

\* the one index Splitmix64 maps to 0: 2^64 - 0x9E3779B97F4A7C15
ZeroIndex == W(\h61C8, \h8646, \h80B5, \h83EB)

\* the int64 seeds whose k-th counter value hits ZeroIndex (k = 0..3: one for
\* each word of the state)
ZeroSeed(k) == I64(FALSE, Add64(ZeroIndex, Neg64(Uint64OfInt(k))))

\* arguments of Splitmix64: small ones, all ones, the top bit alone, the one
\* mapped to 0, a mixed pattern, and the increment itself
MixInputs ==
    { Zero64, One64, W(0, 0, 0, 2), W(0, 0, 0, 3), Max64, W(\h8000, 0, 0, 0),
      ZeroIndex, W(\h0123, \h4567, \h89AB, \hCDEF), GoldenGamma }

\* int64 seeds: 0, 1, -1, the least int64, and the seeds that make Seed retry
Seeds ==
    { I64(FALSE, Zero64), I64(FALSE, One64), I64(TRUE, One64),
      I64(TRUE, W(\h8000, 0, 0, 0)) }
    \cup { ZeroSeed(k) : k \in 0..3 }

\* the seeds of the generators built by NewUnsafeXoshiro256ssRNG at the start
NewSeeds == { I64(FALSE, Zero64), ZeroSeed(2) }

\* prior contents of a caller's buffer: every byte the same value
Fills == {0, 170}

(***************************************************************************)
(* State                                                                   *)
(***************************************************************************)

VARIABLES
    rng,     \* the stand-alone UnsafeXoshiro256ssRNG
    rng0,    \* its state when the current run of Uint64 calls began
    outs,    \* the values its Uint64 calls returned since rng0, in order
    last,    \* the last operation performed on it
    nops,    \* the number of Seed and Bytes calls performed on it
    seeding, \* the Seed call running on it statement by statement, if any
    factory, \* the wrapper's factory fn: the generators a call of it may return
    gens,    \* the generator instances alive (idle or held): number -> state
    made,    \* the number of instances the factory has made
    pool,    \* rngPool: the idle instances
    th,      \* each caller's position in its wrapper call, and the call's locals
    done,    \* the wrapper call that returned last, until the next call begins
    ncalls,  \* the number of wrapper calls begun
    plain,   \* whether every wrapper call so far was a Uint64 call
    lossy,   \* whether rngPool ever dropped or passed over an idle instance
    peak,    \* history: the largest number of wrapper calls in flight at once
    dropped, \* history: whether rngPool ever dropped an idle instance
    reduction \* the range reduction of Uint32n under study: its bound, a result
              \* value, and the search for the inputs that map to it

uvars == << rng, rng0, outs, last, nops, seeding >>
pvars == << factory, gens, made, pool, th, done, ncalls, plain, lossy >>
hvars == << peak, dropped, reduction >>
vars == << uvars, pvars, hvars >>

NoRun == [r |-> RefState, bytes |-> << >>, draws |-> 0, writes |-> << >>,
          oob |-> FALSE, x |-> Zero64, i |-> 0]

\* no range reduction is under study
NoReduction == [pc |-> "idle", maxN |-> [neg |-> FALSE, abs |-> Zero64],
                r |-> Zero64, target |-> Zero64, lo |-> Zero64, hi |-> Zero64,
                x |-> Zero64, next |-> Zero64]

\* no Seed call is running statement by statement
NotSeeding == [pc |-> "idle", seed |-> [neg |-> FALSE, abs |-> Zero64], i |-> 0,
               k |-> 0, evals |-> 0, rejects |-> 0, pre |-> RefState]

Op(op, pre, seed, ret, buf, run, evals) ==
    [op |-> op, pre |-> pre, seed |-> seed, ret |-> ret, buf |-> buf,
     run |-> run, evals |-> evals]

\* a caller outside any wrapper call
Idle == [pc |-> "idle", op |-> "none", arg |-> 0, r |-> 0, pre |-> RefState,
         post |-> RefState, x |-> Zero64, run |-> NoRun, ret |-> 0]

NoDone == [t |-> 0, op |-> "none", arg |-> 0, r |-> 0, pre |-> RefState,
           post |-> RefState, x |-> Zero64, run |-> NoRun, ret |-> 0,
           panicked |-> FALSE]

Threads == 1..NThreads

\* a NewSyncPoolRNG(fn) that calls fn() once itself and pools the instance
FreshPool_Prefilled(fn) ==
    /\ factory = fn
    /\ \E g \in fn : gens = (1 :> g)
    /\ made = 1
    /\ pool = {1}
    /\ th = [t \in Threads |-> Idle]
    /\ done = NoDone
    /\ ncalls = 0
    /\ plain = TRUE
    /\ lossy = FALSE
    /\ peak = 0
    /\ dropped = FALSE
    /\ reduction = NoReduction

\* NewSyncPoolRNG(fn): an empty pool around the factory; nobody is calling
FreshPool(fn) ==
    /\ factory = fn
    /\ gens = << >>
    /\ made = 0
    /\ pool = {}
    /\ th = [t \in Threads |-> Idle]
    /\ done = NoDone
    /\ ncalls = 0
    /\ plain = TRUE
    /\ lossy = FALSE
    /\ peak = 0
    /\ dropped = FALSE
    /\ reduction = NoReduction

\* a generator nobody has used: a literal in the reference state
UnusedRng ==
    /\ rng = RefState
    /\ rng0 = RefState
    /\ outs = << >>
    /\ last = Op("Literal", RefState, I64(FALSE, Zero64), Zero64, << >>, NoRun, 0)
    /\ nops = 0
    /\ seeding = NotSeeding

(***************************************************************************)
(* The stand-alone generator: a struct literal (as the test builds it) or  *)
(* NewUnsafeXoshiro256ssRNG(seed), then Uint64, Seed and Bytes calls.      *)
(***************************************************************************)

InitUnsafe ==
    /\ \/ /\ rng \in {RefState, MaxOutState, ZeroState} \cup SparseStates
          /\ last = Op("Literal", rng, I64(FALSE, Zero64), Zero64, << >>, NoRun, 0)
       \/ \E seed \in NewSeeds :
            /\ rng = NewUnsafeXoshiro256ssRNG(seed)
            /\ last = Op("New", rng, seed, Zero64, << >>, NoRun, 0)
    /\ rng0 = rng
    /\ outs = << >>
    /\ nops = 0
    /\ seeding = NotSeeding
    /\ FreshPool({RefState})

\* r.Uint64()
CallUint64 ==
    /\ Len(outs) < MaxDraws
    /\ \E d \in {UnsafeXoshiro256ssRNG_Uint64(rng)} :
           /\ rng' = d.r
           /\ outs' = Append(outs, d.result)
           /\ last' = Op("Uint64", rng, I64(FALSE, Zero64), d.result, << >>, NoRun, 0)
    /\ UNCHANGED << rng0, nops, pvars, hvars, seeding >>

\* r.Seed(seed)
CallSeed(seed) ==
    /\ nops < MaxOps
    /\ \E d \in {UnsafeXoshiro256ssRNG_Seed(rng, seed)} :
           /\ rng' = d.r
           /\ rng0' = d.r
           /\ last' = Op("Seed", rng, seed, Zero64, << >>, NoRun, d.i)
    /\ outs' = << >>
    /\ nops' = nops + 1
    /\ UNCHANGED << pvars, hvars, seeding >>

\* Splitmix64(index), called directly; it has no receiver and touches no
\* generator (last.buf holds the argument, last.ret the value returned)
CallSplitmix64(index) ==
    /\ nops < MaxOps
    /\ last' = Op("Splitmix64", rng, I64(FALSE, Zero64), Splitmix64(index), index,
                  NoRun, 1)
    /\ nops' = nops + 1
    /\ UNCHANGED << rng, rng0, outs, pvars, hvars, seeding >>

\* Bytes(r, buf) on a caller's buffer
CallBytes(buf) ==
    /\ nops < MaxOps
    /\ \E run \in {Bytes(rng, buf)} :
           /\ rng' = run.r
           /\ rng0' = run.r
           /\ last' = Op("Bytes", rng, I64(FALSE, Zero64), Zero64, buf, run, 0)
    /\ outs' = << >>
    /\ nops' = nops + 1
    /\ UNCHANGED << pvars, hvars, seeding >>

NextUnsafe ==
    \/ CallUint64
    \/ \E seed \in Seeds : CallSeed(seed)
    \/ \E n \in 0..MaxLen, fill \in Fills : CallBytes(Buffer(n, fill))
    \/ \E index \in MixInputs : CallSplitmix64(index)

SpecUnsafe == InitUnsafe /\ [][NextUnsafe]_vars

(***************************************************************************)
(* The range reduction of Uint32n, x -> uint32((x * maxN) >> 32) on the    *)
(* 2^32 values x = s.Uint64() & 0xFFFFFFFF can take.  The inputs mapped to *)
(* a result r are counted by locating, with the function itself, the first *)
(* input whose result is at least r and then the first whose result is at  *)
(* least r + 1, each by bisection of 0 .. 2^32 (the product x * maxN is    *)
(* exact in 64 bits and grows with x).                                     *)
(***************************************************************************)

\* 2^32, the number of inputs
TwoTo32 == W(0, 1, 0, 0)

\* the result of Uint32n for the draw x0, as a uint64
Reduce(x0, maxN) == Uint64OfUint32(ThreadsafePoolRNG_Uint32n(x0, maxN))

\* x - y modulo 2^64
Sub64(x, y) == Add64(x, Neg64(y))

\* the bounds studied: small ones (10 is the benchmark's), powers of two, and
\* bounds next to 2^16, 2^31 and 2^32
ReduceBounds ==
    { I64(FALSE, W(0, 0, 0, k)) : k \in {1, 2, 3, 5, 6, 7, 10, 16} }
    \cup { I64(FALSE, W(0, 0, 1, 0)), I64(FALSE, W(0, 0, 1, 1)),
           I64(FALSE, W(0, 0, \h8000, 0)), I64(FALSE, W(0, 0, \h8000, 1)),
           I64(FALSE, W(0, 0, \hC000, 0)), I64(FALSE, W(0, 0, \hFFFF, \hFFFE)),
           I64(FALSE, W(0, 0, \hFFFF, \hFFFF)) }

\* the result values looked at for the bound b: the smallest ones, the middle
\* one and the three largest
SampleResults(b) ==
    { r \in { W(0, 0, 0, k) : k \in 0..(MaxResults - 1) }
             \cup { Shr64(b, 1) }
             \cup { Sub64(b, W(0, 0, 0, k)) : k \in 1..3 } :
        Less64(r, b) }

\* a bound and a result r of it are chosen; the search for the first input
\* mapped to r or more begins
ReduceBegin(maxN, r) ==
    /\ reduction.pc = "idle"
    /\ reduction' = [NoReduction EXCEPT !.pc = "first", !.maxN = maxN, !.r = r,
                                        !.target = r, !.lo = Zero64, !.hi = TwoTo32]
    /\ UNCHANGED << uvars, pvars, peak, dropped >>

\* one step of the bisection: the function is applied to the middle input
ReduceProbe ==
    /\ reduction.pc \in {"first", "next"}
    /\ reduction.lo # reduction.hi
    /\ \E mid \in {Shr64(Add64(reduction.lo, reduction.hi), 1)} :
        reduction' =
            IF Less64(Reduce(mid, reduction.maxN), reduction.target)
            THEN [reduction EXCEPT !.lo = Add64(mid, One64)]
            ELSE [reduction EXCEPT !.hi = mid]
    /\ UNCHANGED << uvars, pvars, peak, dropped >>

\* the search has closed in on one input: the first mapped to r or more, after
\* which the search for the first mapped to more than r begins there; or the
\* first mapped to more than r (2^32 when there is none)
ReduceFound ==
    /\ reduction.pc \in {"first", "next"}
    /\ reduction.lo = reduction.hi
    /\ reduction' =
          IF reduction.pc = "first"
          THEN [reduction EXCEPT !.pc = "next", !.x = reduction.lo,
                                 !.target = Add64(reduction.r, One64),
                                 !.hi = TwoTo32]
          ELSE [reduction EXCEPT !.pc = "counted", !.next = reduction.lo]
    /\ UNCHANGED << uvars, pvars, peak, dropped >>

InitReduce == UnusedRng /\ FreshPool({RefState})

NextReduce ==
    \/ \E maxN \in ReduceBounds :
         \E r \in SampleResults(Uint64OfInt64(maxN)) : ReduceBegin(maxN, r)
    \/ ReduceProbe
    \/ ReduceFound

SpecReduce == InitReduce /\ [][NextReduce]_vars

(***************************************************************************)
(* Seed statement by statement.  Each of its four loops is                 *)
(* "for r.sK = 0; r.sK == 0; i++ { r.sK = Splitmix64(seed + i) }": the     *)
(* init statement, then the condition, and after each pass of the body the *)
(* post statement and the condition again.  seeding.k is the word the loop *)
(* is for, seeding.i the counter, seeding.evals the number of Splitmix64   *)
(* evaluations made and seeding.rejects the number of those that gave 0.   *)
(***************************************************************************)

WordName(k) == << "s0", "s1", "s2", "s3" >>[k + 1]

\* r.Seed(seed) is called: "i := 0"
SeedBegin(seed) ==
    /\ seeding.pc = "idle"
    /\ nops < MaxOps
    /\ seeding' = [NotSeeding EXCEPT !.pc = "init", !.seed = seed, !.pre = rng]
    /\ nops' = nops + 1
    /\ UNCHANGED << rng, rng0, outs, last, pvars, hvars >>

\* the init statement of a loop: "r.sK = 0"
SeedInit ==
    /\ seeding.pc = "init"
    /\ rng' = [rng EXCEPT ![WordName(seeding.k)] = Zero64]
    /\ seeding' = [seeding EXCEPT !.pc = "test"]
    /\ UNCHANGED << rng0, outs, last, nops, pvars, hvars >>

\* the condition of a loop: "r.sK == 0"; when it fails the next loop begins,
\* and after the fourth loop the function returns
SeedTest ==
    /\ seeding.pc = "test"
    /\ seeding' =
          IF rng[WordName(seeding.k)] = Zero64 THEN [seeding EXCEPT !.pc = "body"]
          ELSE IF seeding.k = 3 THEN [seeding EXCEPT !.pc = "done"]
          ELSE [seeding EXCEPT !.pc = "init", !.k = @ + 1]
    /\ UNCHANGED << rng, rng0, outs, last, nops, pvars, hvars >>

\* the body of a loop: "r.sK = Splitmix64(uint64(seed) + uint64(i))"
SeedBody ==
    /\ seeding.pc = "body"
    /\ seeding.evals < MaxEvals
    /\ \E z \in {Splitmix64(Add64(Uint64OfInt64(seeding.seed), Uint64OfInt(seeding.i)))} :
        /\ rng' = [rng EXCEPT ![WordName(seeding.k)] = z]
        /\ seeding' = [seeding EXCEPT !.pc = "post", !.evals = @ + 1,
                           !.rejects = IF z = Zero64 THEN @ + 1 ELSE @]
    /\ UNCHANGED << rng0, outs, last, nops, pvars, hvars >>

\* a loop without its post statement: "for r.sK = 0; r.sK == 0; { ... }"
SeedPost_NoIncrement ==
    /\ seeding.pc = "post"
    /\ seeding' = [seeding EXCEPT !.pc = "test"]
    /\ UNCHANGED << rng, rng0, outs, last, nops, pvars, hvars >>

\* the post statement of a loop: "i++"
SeedPost ==
    /\ seeding.pc = "post"
    /\ seeding' = [seeding EXCEPT !.pc = "test", !.i = @ + 1]
    /\ UNCHANGED << rng, rng0, outs, last, nops, pvars, hvars >>

\* Seed returns
SeedReturn ==
    /\ seeding.pc = "done"
    /\ last' = Op("Seed", seeding.pre, seeding.seed, Zero64, << >>, NoRun,
                  seeding.evals)
    /\ rng0' = rng
    /\ outs' = << >>
    /\ seeding' = NotSeeding
    /\ UNCHANGED << rng, nops, pvars, hvars >>

\* the statements of a Seed call that has begun
SeedStep == SeedInit \/ SeedTest \/ SeedBody \/ SeedPost \/ SeedReturn

\* Seed on the zero-valued struct (as NewUnsafeXoshiro256ssRNG calls it) and on
\* a generator in use
InitSeed ==
    /\ rng \in {ZeroState, RefState}
    /\ last = Op("Literal", rng, I64(FALSE, Zero64), Zero64, << >>, NoRun, 0)
    /\ rng0 = rng
    /\ outs = << >>
    /\ nops = 0
    /\ seeding = NotSeeding
    /\ FreshPool({RefState})

NextSeed ==
    \/ \E seed \in Seeds : SeedBegin(seed)
    \/ SeedInit
    \/ SeedTest
    \/ SeedBody
    \/ SeedPost
    \/ SeedReturn

\* a goroutine inside Seed keeps running
SpecSeed == InitSeed /\ [][NextSeed]_vars /\ WF_vars(SeedStep)

(***************************************************************************)
(* ThreadsafePoolRNG: each call is the steps Get, Work, Put, Return of one *)
(* caller; callers interleave step by step.  sync.Pool may hand out any    *)
(* idle instance, may drop idle instances at any time, and Get may pass    *)
(* over the idle instances and call New.                                   *)
(***************************************************************************)

\* caller t begins method op and holds instance i from now on
Hold(t, op, arg, i, g) ==
    /\ th' = [th EXCEPT ![t] = [Idle EXCEPT !.pc = "held", !.op = op,
                                            !.arg = arg, !.r = i, !.pre = g]]
    /\ done' = NoDone
    /\ ncalls' = ncalls + 1
    /\ plain' = (plain /\ op = "Uint64")

\* r := s.rngPool.Get().(UnsafeRNG), the first statement of Uint64, Bytes and
\* Read (Int63 and Uint32n begin by calling s.Uint64()): an idle instance ...
GetIdle(t, op, arg, cap) ==
    /\ th[t].pc = "idle"
    /\ ncalls < cap
    /\ \E i \in pool :
        /\ pool' = pool \ {i}
        /\ Hold(t, op, arg, i, gens[i])
    /\ UNCHANGED << factory, gens, made, lossy >>

\* a New whose fn() hands every caller the one instance it made first
GetNew_Shared(t, op, arg, cap) ==
    /\ th[t].pc = "idle"
    /\ ncalls < cap
    /\ \E g \in factory :
        /\ gens' = IF 1 \in DOMAIN gens THEN gens ELSE gens @@ (1 :> g)
        /\ Hold(t, op, arg, 1, IF 1 \in DOMAIN gens THEN gens[1] ELSE g)
    /\ made' = made + 1
    /\ lossy' = (lossy \/ pool # {})
    /\ UNCHANGED << factory, pool >>

\* a New that makes one instance only: later callers wait for it to be idle
GetNew_Waits(t, op, arg, cap) ==
    /\ th[t].pc = "idle"
    /\ ncalls < cap
    /\ made = 0
    /\ \E g \in factory :
        /\ gens' = gens @@ ((made + 1) :> g)
        /\ Hold(t, op, arg, made + 1, g)
    /\ made' = made + 1
    /\ lossy' = (lossy \/ pool # {})
    /\ UNCHANGED << factory, pool >>

\* ... or a new one from the pool's New, which calls fn()
GetNew(t, op, arg, cap) ==
    /\ th[t].pc = "idle"
    /\ ncalls < cap
    /\ \E g \in factory :
        /\ gens' = gens @@ ((made + 1) :> g)
        /\ Hold(t, op, arg, made + 1, g)
    /\ made' = made + 1
    /\ lossy' = (lossy \/ pool # {})
    /\ UNCHANGED << factory, pool >>

Get(t, op, arg, cap) == GetIdle(t, op, arg, cap) \/ GetNew(t, op, arg, cap)

\* x := r.Uint64() in Uint64 (and so in Int63 and Uint32n)
WorkUint64(t) ==
    /\ th[t].pc = "held"
    /\ th[t].op \in {"Uint64", "Int63", "Uint32n"}
    /\ \E d \in {UnsafeXoshiro256ssRNG_Uint64(gens[th[t].r])} :
        /\ gens' = [gens EXCEPT ![th[t].r] = d.r]
        /\ th' = [th EXCEPT ![t].pc = "used", ![t].x = d.result]
    /\ UNCHANGED << factory, made, pool, done, ncalls, plain, lossy >>

\* bytes := make([]byte, n); result := Bytes(r, bytes) in Bytes
WorkBytes(t) ==
    /\ th[t].pc = "held"
    /\ th[t].op = "Bytes"
    /\ \E b \in {ThreadsafePoolRNG_Bytes(gens[th[t].r], th[t].arg)} :
        /\ gens' = [gens EXCEPT ![th[t].r] = b.run.r]
        /\ th' = [th EXCEPT ![t].pc = "used", ![t].run = b.run, ![t].ret = b.ret]
    /\ UNCHANGED << factory, made, pool, done, ncalls, plain, lossy >>

\* Bytes(r, p) in Read
WorkRead(t) ==
    /\ th[t].pc = "held"
    /\ th[t].op = "Read"
    /\ \E b \in {ThreadsafePoolRNG_Read(gens[th[t].r], th[t].arg)} :
        /\ gens' = [gens EXCEPT ![th[t].r] = b.run.r]
        /\ th' = [th EXCEPT ![t].pc = "used", ![t].run = b.run, ![t].ret = b.ret]
    /\ UNCHANGED << factory, made, pool, done, ncalls, plain, lossy >>

\* a method that goes on to its return statement without s.rngPool.Put(r)
Put_NoCheckIn(t) ==
    /\ th[t].pc = "used"
    /\ th' = [th EXCEPT ![t].pc = "put", ![t].post = gens[th[t].r]]
    /\ UNCHANGED << factory, gens, made, pool, done, ncalls, plain, lossy >>

\* s.rngPool.Put(r)
Put(t) ==
    /\ th[t].pc = "used"
    /\ pool' = pool \cup {th[t].r}
    /\ th' = [th EXCEPT ![t].pc = "put", ![t].post = gens[th[t].r]]
    /\ UNCHANGED << factory, gens, made, done, ncalls, plain, lossy >>

\* the value the method returns
Result(c) ==
    CASE c.op = "Uint64" -> c.x
      [] c.op = "Int63" -> ThreadsafePoolRNG_Int63(c.x)
      [] c.op = "Uint32n" -> ThreadsafePoolRNG_Uint32n(c.x, c.arg)
      [] OTHER -> c.ret

\* return x / return result / return p
Return(t) ==
    /\ th[t].pc = "put"
    /\ done' = [t |-> t, op |-> th[t].op, arg |-> th[t].arg, r |-> th[t].r,
                pre |-> th[t].pre, post |-> th[t].post, x |-> th[t].x,
                run |-> th[t].run, ret |-> Result(th[t]), panicked |-> FALSE]
    /\ th' = [th EXCEPT ![t] = Idle]
    /\ UNCHANGED << factory, gens, made, pool, ncalls, plain, lossy >>

\* a Seed that does nothing and returns
ThreadsafePoolRNG_Seed_NoOp(t, seed, cap) ==
    /\ th[t].pc = "idle"
    /\ ncalls < cap
    /\ th' = [th EXCEPT ![t] = [Idle EXCEPT !.pc = "put", !.op = "Seed",
                                            !.arg = seed]]
    /\ done' = NoDone
    /\ ncalls' = ncalls + 1
    /\ plain' = FALSE
    /\ UNCHANGED << factory, gens, made, pool, lossy >>

\* (s *ThreadsafePoolRNG) Seed(seed): panic("Cant seed a ThreadsafePoolRNG")
ThreadsafePoolRNG_Seed(t, seed, cap) ==
    /\ th[t].pc = "idle"
    /\ ncalls < cap
    /\ th' = [th EXCEPT ![t] = [Idle EXCEPT !.pc = "panicked", !.op = "Seed",
                                            !.arg = seed]]
    /\ done' = NoDone
    /\ ncalls' = ncalls + 1
    /\ plain' = FALSE
    /\ UNCHANGED << factory, gens, made, pool, lossy >>

\* the caller recovers from the panic, as assert.Panics does
Recover(t) ==
    /\ th[t].pc = "panicked"
    /\ done' = [NoDone EXCEPT !.t = t, !.op = th[t].op, !.arg = th[t].arg,
                              !.panicked = TRUE]
    /\ th' = [th EXCEPT ![t] = Idle]
    /\ UNCHANGED << factory, gens, made, pool, ncalls, plain, lossy >>

\* sync.Pool drops an idle instance (a garbage collection, or Put under the
\* race detector)
PoolDrop ==
    /\ \E i \in pool :
        /\ pool' = pool \ {i}
        /\ gens' = [j \in (DOMAIN gens) \ {i} |-> gens[j]]
    /\ lossy' = TRUE
    /\ UNCHANGED << factory, made, th, done, ncalls, plain >>

\* the argument maxN of Uint32n: 0, 1, 10 (the test's), 2^32 - 1
Bounds ==
    { I64(FALSE, Zero64), I64(FALSE, One64), I64(FALSE, W(0, 0, 0, 10)),
      I64(FALSE, W(0, 0, \hFFFF, \hFFFF)) }

\* the factories: a fixed literal state (every instance starts the same), or
\* NewSyncPoolXoshiro256ssRNG's fresh seed from the host for every instance
Factories ==
    { {RefState}, {MaxOutState},
      {NewUnsafeXoshiro256ssRNG(seed) : seed \in {I64(FALSE, One64), I64(TRUE, One64)}} }

\* the steps of the callers T, with arguments from the given sets
NextOf(T, nullary, lens, bounds, seeds, cap) ==
    \/ \E t \in T :
        \/ \E op \in nullary : Get(t, op, 0, cap)
        \/ \E maxN \in bounds : Get(t, "Uint32n", maxN, cap)
        \/ \E n \in lens : Get(t, "Bytes", n, cap)
        \/ \E n \in lens : Get(t, "Read", Slice(t, Buffer(n, 170)), cap)
        \/ \E seed \in seeds : ThreadsafePoolRNG_Seed(t, seed, cap)
        \/ WorkUint64(t)
        \/ WorkBytes(t)
        \/ WorkRead(t)
        \/ Put(t)
        \/ Return(t)
        \/ Recover(t)
    \/ PoolDrop

\* one caller, calls one after the other, the full range of arguments
InitSeq == UnusedRng /\ \E fn \in Factories : FreshPool(fn)
NextSeq ==
    /\ NextOf({1}, {"Uint64", "Int63"}, 0..MaxPoolLen, Bounds, {I64(FALSE, Zero64), I64(TRUE, One64)},
              MaxSeqCalls)
    /\ UNCHANGED << uvars, hvars >>
SpecSeq == InitSeq /\ [][NextSeq]_vars

\* concurrent callers, one argument for each method; Uint32n stands for the
\* two methods that are s.Uint64() and arithmetic on its result
Init == UnusedRng /\ FreshPool({MaxOutState})
Next ==
    /\ NextOf(Threads, {"Uint64"}, {9}, {I64(FALSE, W(0, 0, 0, 10))}, {I64(FALSE, Zero64)},
              MaxCalls)
    /\ UNCHANGED << uvars, hvars >>
Spec == Init /\ [][Next]_vars

\* the steps of caller t's call after its Get
Steps(t) ==
    /\ WorkUint64(t) \/ WorkBytes(t) \/ WorkRead(t) \/ Put(t) \/ Return(t)
    /\ UNCHANGED << uvars, hvars >>

\* caller 1 calls Uint64, Bytes and Read and is scheduled fairly (a goroutine
\* inside a call keeps running); the other callers contend with Uint64 calls
\* and may stall at any point, holding their instance forever
NextLive ==
    /\ \/ \E t \in Threads : Get(t, "Uint64", 0, MaxCalls) \/ Steps(t)
       \/ Get(1, "Bytes", 9, MaxCalls)
       \/ Get(1, "Read", Slice(1, Buffer(9, 170)), MaxCalls)
       \/ PoolDrop
    /\ UNCHANGED << uvars, hvars >>
SpecLive == Init /\ [][NextLive]_vars /\ WF_vars(Steps(1))

\* the number of wrapper calls in flight, from Get to return
NumInFlight == Cardinality({ t \in Threads : th[t].pc \in {"held", "used", "put"} })

\* callers of Uint64 and Read, with the history of the run kept: the largest
\* number of calls in flight so far, and whether an idle instance was dropped
NextPool ==
    /\ \/ \E t \in Threads :
            \/ Get(t, "Uint64", 0, MaxCalls)
            \/ Get(t, "Read", Slice(t, Buffer(9, 170)), MaxCalls)
            \/ WorkUint64(t)
            \/ WorkRead(t)
            \/ Put(t)
            \/ Return(t)
       \/ PoolDrop
    /\ peak' = IF NumInFlight' > peak THEN NumInFlight' ELSE peak
    /\ dropped' = (dropped \/ (DOMAIN gens) \ (DOMAIN gens') # {})
    /\ UNCHANGED << uvars, reduction >>
SpecPool == Init /\ [][NextPool]_vars

(***************************************************************************)
(* Properties of the stand-alone generator (under SpecUnsafe)              *)
(***************************************************************************)

\* the generator state after k Uint64 calls from r
RECURSIVE Advance(_, _)
Advance(r, k) ==
    IF k = 0 THEN r ELSE Advance(UnsafeXoshiro256ssRNG_Uint64(r).r, k - 1)

\* ceil(n / 8)
CeilDiv8(n) == (n + 7) \div 8

\* C1 (as amended): from the reference state the first Uint64 call returns
\* 0x373a30d9b7b251dd and the second 0x50fd70a66663d9eb, the values whose
\* little-endian bytes are dd 51 b2 b7 d9 30 3a 37 and eb d9 63 66 a6 70 fd 50.
C1_RefDrawsLittleEndian ==
    rng0 = RefState =>
        /\ Len(outs) >= 1 => outs[1] = W(\h373a, \h30d9, \hb7b2, \h51dd)
        /\ Len(outs) >= 2 => outs[2] = W(\h50fd, \h70a6, \h6663, \hd9eb)

\* C1 as stated: the first call returns 0xdd51b2b7d9303a37 and the second
\* 0xebd96366a670fd50.
C1_Original ==
    rng0 = RefState =>
        /\ Len(outs) >= 1 => outs[1] = W(\hdd51, \hb2b7, \hd930, \h3a37)
        /\ Len(outs) >= 2 => outs[2] = W(\hebd9, \h6366, \ha670, \hfd50)

C1_Witness == rng0 = RefState /\ Len(outs) = 2

\* C2: Bytes on a 16-byte buffer from the reference state leaves the bytes
\* dd 51 b2 b7 d9 30 3a 37 eb d9 63 66 a6 70 fd 50, which are the first two
\* Uint64 draws from that state, each least significant byte first.
C2_RefBytes ==
    (last.op = "Bytes" /\ last.pre = RefState /\ Len(last.buf) = 16) =>
        /\ last.run.bytes =
              << \hdd, \h51, \hb2, \hb7, \hd9, \h30, \h3a, \h37,
                 \heb, \hd9, \h63, \h66, \ha6, \h70, \hfd, \h50 >>
        /\ last.run.bytes =
              UnsafeXoshiro256ssRNG_Uint64(RefState).result
              \o UnsafeXoshiro256ssRNG_Uint64(Advance(RefState, 1)).result

C2_Witness == last.op = "Bytes" /\ last.pre = RefState /\ Len(last.buf) = 16

\* C3: after Seed(seed) returns, and after NewUnsafeXoshiro256ssRNG(seed), each
\* of s0, s1, s2, s3 is non-zero, for every seed (0 included).
C3_SeedNonZero ==
    last.op \in {"Seed", "New"} =>
        /\ rng.s0 # Zero64
        /\ rng.s1 # Zero64
        /\ rng.s2 # Zero64
        /\ rng.s3 # Zero64

\* a Seed call that had to retry: one of its expansions was zero
C3_Witness == last.op = "Seed" /\ last.evals = 5 /\ last.seed = ZeroSeed(2)

\* C4 as stated: one call of Bytes on a buffer of length n draws exactly
\* ceil(n/8) times and leaves the generator ceil(n/8) transitions on.
C4_Original ==
    last.op = "Bytes" =>
        /\ last.run.draws = CeilDiv8(Len(last.buf))
        /\ rng = Advance(last.pre, CeilDiv8(Len(last.buf)))

\* values of Splitmix64 from the reference implementation of the algorithm:
\* pairs << argument, value >>
SplitmixVectors ==
    { << W(\h0000, \h0000, \h0000, \h0000), W(\hE220, \hA839, \h7B1D, \hCDAF) >>,
      << W(\h0000, \h0000, \h0000, \h0001), W(\h910A, \h2DEC, \h8902, \h5CC1) >>,
      << W(\h0000, \h0000, \h0000, \h0002), W(\h9758, \h35DE, \h1C97, \h56CE) >>,
      << W(\h0000, \h0000, \h0000, \h0003), W(\h1D0B, \h14E4, \hDB01, \h8FED) >>,
      << W(\hFFFF, \hFFFF, \hFFFF, \hFFFF), W(\hE4D9, \h7177, \h1B65, \h2C20) >>,
      << W(\h8000, \h0000, \h0000, \h0000), W(\h481E, \hC0A2, \h12A9, \hF3DB) >>,
      << W(\h61C8, \h8646, \h80B5, \h83EB), W(\h0000, \h0000, \h0000, \h0000) >>,
      << W(\h0123, \h4567, \h89AB, \hCDEF), W(\h157A, \h3807, \hA48F, \hAA9D) >>,
      << W(\h9E37, \h79B9, \h7F4A, \h7C15), W(\h6E78, \h9E6A, \hA1B9, \h65F4) >> }

\* C13: Splitmix64(x) is the reference computation modulo 2^64, z = x + 0x9E37..,
\* z = (z XOR z>>30) * 0xBF58.., z = (z XOR z>>27) * 0x94D0.., z XOR z>>31; it
\* agrees with the reference values and leaves every generator as it was.
C13_SplitmixReference ==
    last.op = "Splitmix64" =>
        LET z0 == Add64(last.buf, W(\h9E37, \h79B9, \h7F4A, \h7C15))
            z1 == Mul64(Xor64(z0, Shr64(z0, 30)), W(\hBF58, \h476D, \h1CE4, \hE5B9))
            z2 == Mul64(Xor64(z1, Shr64(z1, 27)), W(\h94D0, \h49BB, \h1331, \h11EB))
        IN  /\ last.ret = Xor64(z2, Shr64(z2, 31))
            /\ \E v \in SplitmixVectors : v[1] = last.buf /\ v[2] = last.ret
            /\ rng = last.pre

\* Splitmix64 applied to all ones: the addition wraps around
C13_Witness == last.op = "Splitmix64" /\ last.buf = Max64

\* bit i (0 the lowest) of a 64-bit word
Bit(x, i) == (x[(i \div 8) + 1] \div Pow2(i % 8)) % 2

\* byte j (0 the lowest) of x rotated left by k: bit i of the rotation is bit
\* i - k of x, counted modulo 64
RotlByte(x, k, j) ==
    Bit(x, (64 + 8 * j - k) % 64)
    + 2 * Bit(x, (65 + 8 * j - k) % 64)
    + 4 * Bit(x, (66 + 8 * j - k) % 64)
    + 8 * Bit(x, (67 + 8 * j - k) % 64)
    + 16 * Bit(x, (68 + 8 * j - k) % 64)
    + 32 * Bit(x, (69 + 8 * j - k) % 64)
    + 64 * Bit(x, (70 + 8 * j - k) % 64)
    + 128 * Bit(x, (71 + 8 * j - k) % 64)

\* the 64-bit circular left shift, bit by bit
Rotl64(x, k) ==
    << RotlByte(x, k, 0), RotlByte(x, k, 1), RotlByte(x, k, 2), RotlByte(x, k, 3),
       RotlByte(x, k, 4), RotlByte(x, k, 5), RotlByte(x, k, 6), RotlByte(x, k, 7) >>

\* C14: Uint64 returns rotl64(s1 * 5, 7) * 9 modulo 2^64 of the state before the
\* call and leaves the xoshiro256 transition of it: with t = s1 << 17,
\* s2' = s2 XOR s0 XOR t, s3' = rotl64(s3 XOR s1, 45), s1' = s1 XOR s2 XOR s0,
\* s0' = s0 XOR s3 XOR s1.
C14_Uint64Reference ==
    last.op = "Uint64" =>
        /\ last.ret = Mul64(Rotl64(Mul64(last.pre.s1, W(0, 0, 0, 5)), 7), W(0, 0, 0, 9))
        /\ rng.s2 = Xor64(Xor64(last.pre.s2, last.pre.s0), Shl64(last.pre.s1, 17))
        /\ rng.s3 = Rotl64(Xor64(last.pre.s3, last.pre.s1), 45)
        /\ rng.s1 = Xor64(Xor64(last.pre.s1, last.pre.s2), last.pre.s0)
        /\ rng.s0 = Xor64(Xor64(last.pre.s0, last.pre.s3), last.pre.s1)

\* a second draw in a row, so that the state it starts from was left by Uint64
C14_Witness == last.op = "Uint64" /\ Len(outs) = 2 /\ rng0 = MaxOutState

\* Splitmix64(seed + j modulo 2^64), the expansion of seed at counter value j
Expansion(seed, j) == Splitmix64(Add64(Uint64OfInt64(seed), Uint64OfInt(j)))

\* the counter values up to 4 whose expansion is not zero
NonZeroCounters(seed) == { j \in 0..4 : Expansion(seed, j) # Zero64 }

\* the element of a set of numbers with exactly k elements below it
Nth(S, k) == CHOOSE j \in S : Cardinality({ m \in S : m < j }) = k

\* C15: Seed(seed) gives s0, s1, s2, s3 in this order the expansions
\* Splitmix64(seed + i) of one counter i that starts at 0, goes up by one after
\* every evaluation and is never reset: word k takes the k-th counter value
\* whose expansion is not zero; when none of the first four expansions is zero,
\* word k is Splitmix64(seed + k).
C15_SeedCounter ==
    last.op \in {"Seed", "New"} =>
        \E nz \in {NonZeroCounters(last.seed)} :
            /\ Cardinality(nz) >= 4
            /\ rng.s0 = Expansion(last.seed, Nth(nz, 0))
            /\ rng.s1 = Expansion(last.seed, Nth(nz, 1))
            /\ rng.s2 = Expansion(last.seed, Nth(nz, 2))
            /\ rng.s3 = Expansion(last.seed, Nth(nz, 3))
            /\ last.op = "Seed" => last.evals = Nth(nz, 3) + 1
            /\ (0..3) \subseteq nz =>
                   rng = Xoshiro(Expansion(last.seed, 0), Expansion(last.seed, 1),
                                 Expansion(last.seed, 2), Expansion(last.seed, 3))

\* a Seed call whose second expansion was zero: s1 takes counter value 2
C15_Witness == last.op = "Seed" /\ last.seed = ZeroSeed(1) /\ last.evals = 5

(***************************************************************************)
(* Properties of the wrapper (C5, C6, C8, C9, C10 under SpecSeq, C7 under  *)
(* Spec)                                                                   *)
(***************************************************************************)

\* the bytes of the first k Uint64 draws from r, each least significant first
RECURSIVE DrawBytes(_, _)
DrawBytes(r, k) ==
    IF k = 0 THEN << >>
    ELSE Let1(LAMBDA d : d.result \o DrawBytes(d.r, k - 1),
              UnsafeXoshiro256ssRNG_Uint64(r))

\* the number of positions of the sequence w that hold i
Count(w, i) == Cardinality({k \in 1..Len(w) : w[k] = i})

\* C5: ThreadsafePoolRNG.Bytes(n) returns exactly n bytes, each written from a
\* generator draw; Bytes(r, buffer) (reached through Bytes(n) and Read(p))
\* stores to every index of the buffer exactly once and to no index outside it.
C5_BytesLength ==
    /\ done.op = "Bytes" =>
        /\ Len(done.ret.data) = done.arg
        /\ done.ret.data =
              SubSeq(DrawBytes(done.pre, CeilDiv8(done.arg)), 1, done.arg)
    /\ done.op \in {"Bytes", "Read"} =>
        /\ ~done.run.oob
        /\ \A k \in 1..Len(done.run.writes) :
              done.run.writes[k] >= 0 /\ done.run.writes[k] < Len(done.ret.data)
        /\ \A i \in 0..(Len(done.ret.data) - 1) : Count(done.run.writes, i) = 1

\* a Bytes(n) call with two full chunks and a partial one
C5_Witness == done.op = "Bytes" /\ done.arg = 17 /\ Len(done.run.writes) = 17

\* C6: for 0 < bound <= 2^32 - 1, Uint32n(bound) returns r < bound, and r is
\* bits 32..63 of the exact product (x AND 0xFFFFFFFF) * bound, which fits 64 bits.
C6_Uint32nBelowBound ==
    (/\ done.op = "Uint32n"
     /\ ~done.arg.neg
     /\ done.arg.abs # Zero64
     /\ Less64(done.arg.abs, W(0, 1, 0, 0))) =>
        LET exact == MulWide(And64(done.x, Mask32), done.arg.abs)
        IN  /\ done.x = UnsafeXoshiro256ssRNG_Uint64(done.pre).result
            /\ SubSeq(exact, 9, 16) = Zero64
            /\ done.ret = SubSeq(exact, 5, 8)
            /\ Less64(Uint64OfUint32(done.ret), done.arg.abs)

\* the largest bound on a draw whose bits are all ones
C6_Witness ==
    /\ done.op = "Uint32n"
    /\ done.arg = I64(FALSE, W(0, 0, \hFFFF, \hFFFF))
    /\ done.x = Max64

\* C7: ThreadsafePoolRNG.Seed panics whatever the seed and whatever the state
\* of the wrapper; a Seed call never reaches a normal return.
C7_SeedPanics ==
    /\ \A t \in Threads : th[t].op = "Seed" => th[t].pc = "panicked"
    /\ done.op = "Seed" => done.panicked

\* Seed panicked while another caller has an instance checked out, after draws
C7_Witness ==
    \E t, u \in Threads :
        /\ th[t].pc = "panicked"
        /\ th[u].pc = "used"
        /\ made >= 1

\* C8 as stated: with a factory that always returns the same fixed state, the
\* k-th of a single caller's sequential Uint64 calls returns the k-th draw of
\* one stand-alone generator started in that state.
C8_Original ==
    (plain /\ Cardinality(factory) = 1 /\ done.op = "Uint64") =>
        \A g \in factory :
            done.ret = UnsafeXoshiro256ssRNG_Uint64(Advance(g, ncalls - 1)).result

\* C9: Int63 makes exactly one Uint64 draw x on the one instance it holds and
\* returns x with bit 63 cleared, as a non-negative int64.
C9_Int63NonNegative ==
    done.op = "Int63" =>
        /\ done.x = UnsafeXoshiro256ssRNG_Uint64(done.pre).result
        /\ done.post = UnsafeXoshiro256ssRNG_Uint64(done.pre).r
        /\ ~done.ret.neg
        /\ done.ret.abs = [done.x EXCEPT ![8] = done.x[8] % 128]

\* an Int63 call whose draw has bit 63 set
C9_Witness == done.op = "Int63" /\ done.x[8] >= 128

\* C10: Read(p) returns p itself; p then holds the bytes of consecutive Uint64
\* draws of the one instance the call held, least significant byte first; on a
\* fresh wrapper with len(p) = 8 that is the first draw of a generator the
\* factory returns.
C10_ReadFillsBuffer ==
    done.op = "Read" =>
        LET n == Len(done.arg.data)
        IN  /\ done.ret.id = done.arg.id
            /\ Len(done.ret.data) = n
            /\ \E k \in 0..CeilDiv8(n) + 1 :
                /\ done.post = Advance(done.pre, k)
                /\ done.ret.data = SubSeq(DrawBytes(done.pre, k), 1, n)
            /\ (ncalls = 1 /\ n = 8) =>
                \E g \in factory :
                    done.ret.data = UnsafeXoshiro256ssRNG_Uint64(g).result

\* the first call on a fresh wrapper is Read on an 8-byte buffer
C10_Witness == done.op = "Read" /\ Len(done.arg.data) = 8 /\ ncalls = 1

(***************************************************************************)
(* Properties of Bytes(r, bytes) on a caller's buffer (SpecUnsafe)         *)
(***************************************************************************)

\* the values of the first k Uint64 draws from r, as a function on 0 .. k - 1
Draws(r, k) == [j \in 0..(k - 1) |-> UnsafeXoshiro256ssRNG_Uint64(Advance(r, j)).result]

\* C16: after Bytes on a buffer of length n, buffer[8j + k] is byte k, least
\* significant first, of the j-th value drawn, for every full chunk j < n div 8
\* and k in 0..7; when n mod 8 # 0, buffer[8 (n div 8) + k] is byte k of the
\* next value drawn for every k < n mod 8, its higher bytes being dropped.
C16_BytesLayout ==
    last.op = "Bytes" =>
        \E n \in {Len(last.buf)} :
            \E ds \in {Draws(last.pre, (n \div 8) + 1)} :
                /\ Len(last.run.bytes) = n
                /\ \A j \in 0..((n \div 8) - 1) : \A k \in 0..7 :
                       last.run.bytes[8 * j + k + 1] = ByteOf(Shr64(ds[j], 8 * k))
                /\ \A k \in 0..((n % 8) - 1) :
                       last.run.bytes[8 * (n \div 8) + k + 1]
                           = ByteOf(Shr64(ds[n \div 8], 8 * k))

\* a buffer of one full chunk and five bytes more
C16_Witness == last.op = "Bytes" /\ Len(last.buf) = 13 /\ last.pre = RefState

\* a buffer of length n whose bytes all differ: 1, 2, .., n
Ramp(n) == [i \in 1..n |-> i]

\* C17: Bytes never reads what the buffer held before: the same call from the
\* same generator state on a buffer of the same length and other contents ends
\* with the same bytes, the same generator state and the same number of draws.
C17_BytesIgnoresPrior ==
    last.op = "Bytes" =>
        \A prior \in { Buffer(Len(last.buf), fill) : fill \in Fills \cup {255} }
                         \cup { Ramp(Len(last.buf)) } :
            \E other \in { Bytes(last.pre, prior) } :
                /\ other.bytes = last.run.bytes
                /\ other.r = rng
                /\ other.draws = last.run.draws

\* a run on a 17-byte buffer that held 0xAA everywhere
C17_Witness == last.op = "Bytes" /\ last.buf = Buffer(17, 170)

(***************************************************************************)
(* Properties of the wrapper under concurrent callers (Spec, SpecLive)     *)
(***************************************************************************)

\* caller t is between its pool Get and its pool Put
Holding(t) == th[t].pc \in {"held", "used"}

\* C11: no generator instance is held by two callers at the same time, and an
\* instance a caller holds is not idle in the pool, so no two calls run the
\* Uint64 state update on one instance concurrently.
C11_OneUserPerInstance ==
    \A t \in Threads :
        Holding(t) =>
            /\ th[t].r \notin pool
            /\ th[t].r \in DOMAIN gens
            /\ \A u \in Threads \ {t} : Holding(u) => th[u].r # th[t].r

\* two callers hold instances at the same time, one of them in mid-call
C11_Witness ==
    \E t \in Threads : \E u \in Threads \ {t} :
        th[t].pc = "used" /\ th[u].pc = "held" /\ made = 2

\* C12: a caller never waits for another one.  A caller that is outside a call
\* can always perform the pool Get; a Get that finds no idle instance makes a
\* new one through the factory; and a call of a fairly scheduled caller that
\* has begun returns, whatever the other callers do or fail to do.
C12_NeverWaits ==
    /\ [](\A t \in Threads :
            (th[t].pc = "idle" /\ ncalls < MaxCalls) =>
                ENABLED Get(t, "Uint64", 0, MaxCalls))
    /\ [][\A t \in Threads :
            (th[t].pc = "idle" /\ th'[t].pc = "held" /\ pool = {}) =>
                (made' = made + 1 /\ th'[t].r = made' /\ th'[t].pre \in factory)]_vars
    /\ (th[1].pc \in {"held", "used", "put"}) ~> (th[1].pc = "idle")

\* caller 1 has begun a call on a new instance while the only other instance
\* is checked out by a caller in mid-call
C12_Witness ==
    /\ th[1].pc = "held"
    /\ th[1].r = 2
    /\ pool = {}
    /\ \E u \in Threads \ {1} : th[u].pc \in {"held", "used"} /\ th[u].r = 1

\* the instances checked out: made, not dropped, and not idle in the pool
CheckedOut == (DOMAIN gens) \ pool

\* caller t is inside a wrapper call
InFlight(t) == th[t].pc \in {"held", "used", "put"}

\* the step of caller t keeps the order Get, draw, Put, return
InOrder(t) ==
    /\ (th[t].pc # "held" /\ th'[t].pc = "held") =>
           /\ th[t].pc = "idle"
           /\ th'[t].r \in (DOMAIN gens') \ pool'
    /\ (th[t].pc # "used" /\ th'[t].pc = "used") =>
           /\ th[t].pc = "held"
           /\ th'[t].r = th[t].r
           /\ \A i \in (DOMAIN gens) \ {th[t].r} : gens'[i] = gens[i]
    /\ (th[t].pc # "put" /\ th'[t].pc = "put") =>
           /\ th[t].pc = "used"
           /\ pool' = pool \cup {th[t].r}
    /\ (InFlight(t) /\ th'[t].pc = "idle") =>
           /\ th[t].pc = "put"
           /\ done'.r = th[t].r

\* C18: Uint64, Bytes and Read take their steps in the order pool Get, draws on
\* the instance obtained, pool Put of that instance, return.  So when no call is
\* in flight no instance is checked out, and the number of instances checked out
\* is the number of calls between their Get and their Put.
C18_GetDrawPutReturn ==
    /\ []((\A t \in Threads : ~InFlight(t)) => CheckedOut = {})
    /\ [](Cardinality(CheckedOut) = Cardinality({ t \in Threads : Holding(t) }))
    /\ [][\A t \in Threads : InOrder(t)]_vars

\* one call has put its instance back and not yet returned while another is
\* between its draw and its Put
C18_Witness ==
    \E t \in Threads : \E u \in Threads \ {t} :
        /\ th[t].pc = "put"
        /\ th[t].op = "Bytes"
        /\ th[u].pc = "used"
        /\ CheckedOut = {th[u].r}

(***************************************************************************)
(* Properties of instance creation (SpecPool)                              *)
(***************************************************************************)

Unstep(r) ==
    LET y == Xor64(r.s1, r.s2)
        s1 == Xor64(Xor64(y, Shl64(y, 17)), Xor64(Shl64(y, 34), Shl64(y, 51)))
        s3a == Rotl64(r.s3, 19)
        s0 == Xor64(r.s0, s3a)
        s2 == Xor64(Xor64(r.s1, s1), s0)
        s3 == Xor64(s3a, s1)
    IN  Xoshiro(s0, s1, s2, s3)

\* C20: a state with a non-zero word has a non-zero word after any number of
\* Uint64 calls (made directly or inside Bytes); the transition is injective,
\* the state before a call being recoverable from the state after it; only the
\* all-zero state leads to the all-zero state, and from it every call returns 0.
C20_NeverAllZero ==
    /\ rng0 # ZeroState => rng # ZeroState
    /\ (last.op = "Bytes" /\ last.pre # ZeroState) => rng # ZeroState
    /\ last.op = "Uint64" =>
        /\ Unstep(rng) = last.pre
        /\ rng = ZeroState => last.pre = ZeroState
        /\ last.pre = ZeroState => (rng = ZeroState /\ last.ret = Zero64)
    /\ rng0 = ZeroState =>
        /\ rng = ZeroState
        /\ \A k \in 1..Len(outs) : outs[k] = Zero64

\* two draws from a state whose only set bit is the top bit of s3
C20_Witness ==
    /\ last.op = "Uint64"
    /\ Len(outs) = 2
    /\ rng0 = Xoshiro(Zero64, Zero64, Zero64, W(\h8000, 0, 0, 0))

(***************************************************************************)
(* Properties of Seed as a function of the seed (SpecUnsafe)               *)
(***************************************************************************)

\* C21: the state Seed(seed) leaves depends on seed alone: on a generator in
\* any state (seeded before, advanced by draws, a literal) it is the state of
\* NewUnsafeXoshiro256ssRNG(seed), so the draws that follow are those of a new
\* generator, and a second Seed(seed) right after the first changes nothing.
C21_SeedForgetsState ==
    last.op = "Seed" =>
        \E fresh \in {NewUnsafeXoshiro256ssRNG(last.seed)} :
            /\ rng = fresh
            /\ rng0 = fresh
            /\ outs = << >>
            /\ UnsafeXoshiro256ssRNG_Seed(rng, last.seed).r = fresh
            /\ UnsafeXoshiro256ssRNG_Uint64(rng) = UnsafeXoshiro256ssRNG_Uint64(fresh)

\* a generator made with seed 0 is seeded with 0 again after two draws
C21_Witness ==
    /\ last.op = "Seed"
    /\ last.seed = I64(FALSE, Zero64)
    /\ last.pre = Advance(NewUnsafeXoshiro256ssRNG(I64(FALSE, Zero64)), 2)

(***************************************************************************)
(* Properties of Seed statement by statement (SpecSeed)                    *)
(***************************************************************************)

\* the inverses modulo 2^64 of the two odd multipliers of Splitmix64
MixAInverse == W(\h96DE, \h1B17, \h3F11, \h9089)
MixBInverse == W(\h3196, \h42B2, \hD24D, \h8EC3)

\* the argument Splitmix64 had, computed from its value: each step undone in
\* turn ("z ^ (z >> k)" by z ^ (z >> k) ^ (z >> 2k) for 3k >= 64)
Unmix(v) ==
    LET z2 == Xor64(v, Xor64(Shr64(v, 31), Shr64(v, 62)))
        y1 == Mul64(z2, MixBInverse)
        z1 == Xor64(y1, Xor64(Shr64(y1, 27), Shr64(y1, 54)))
        y0 == Mul64(z1, MixAInverse)
        z0 == Xor64(y0, Xor64(Shr64(y0, 30), Shr64(y0, 60)))
    IN  Add64(z0, Neg64(GoldenGamma))

\* the argument of the Splitmix64 call the running Seed made last
SeedArg == Add64(Uint64OfInt64(seeding.seed), Uint64OfInt(seeding.i))

\* C22: Seed returns for every seed, after at most 5 evaluations of Splitmix64:
\* Splitmix64 maps one argument only to 0 (its argument is recoverable from its
\* value), the counter values seed + 0, seed + 1, .. are all different, so the
\* loops reject at most one of them.
C22_SeedTerminates ==
    /\ [](seeding.evals <= 5 /\ seeding.rejects <= 1)
    /\ [](seeding.pc = "done" =>
            /\ seeding.evals = 4 + seeding.rejects
            /\ seeding.i = seeding.evals
            /\ \E d \in {UnsafeXoshiro256ssRNG_Seed(seeding.pre, seeding.seed)} :
                   rng = d.r /\ seeding.evals = d.i)
    /\ [](seeding.pc = "post" =>
            \E z \in {rng[WordName(seeding.k)]} :
                /\ Unmix(z) = SeedArg
                /\ z = Zero64 <=> SeedArg = ZeroIndex)
    /\ [](Mul64(MixA, MixAInverse) = One64 /\ Mul64(MixB, MixBInverse) = One64)
    /\ (seeding.pc # "idle") ~> (seeding.pc = "done")

\* a Seed call about to return after five evaluations, the third of which
\* gave 0
C22_Witness ==
    /\ seeding.pc = "done"
    /\ seeding.evals = 5
    /\ seeding.rejects = 1
    /\ seeding.seed = ZeroSeed(2)

(***************************************************************************)
(* Properties of the range reduction of Uint32n (SpecReduce)               *)
(***************************************************************************)

\* b divides 2^32: it is one of 2^0 .. 2^32
DividesTwoTo32(b) == \E k \in 0..32 : b = Shl64(One64, k)

\* C23: for a bound in 1 .. 2^32 - 1 the map x -> (x * bound) >> 32 on the 2^32
\* inputs reaches every result r in [0, bound); the inputs mapped to r are
\* those from reduction.x up to reduction.next - 1, and their number n is
\* 2^32 / bound rounded down or up, so two results differ by at most 1; n is
\* 2^32 / bound for every result when bound divides 2^32, and otherwise the
\* result 0 has more inputs than the result bound - 1.
C23_RangeReduction ==
    reduction.pc = "counted" =>
        \E b \in {Uint64OfInt64(reduction.maxN)} :
          \E n \in {Sub64(reduction.next, reduction.x)} :
            /\ Less64(reduction.x, reduction.next)
            /\ ~Less64(TwoTo32, reduction.next)
            /\ Reduce(reduction.x, reduction.maxN) = reduction.r
            /\ Reduce(Sub64(reduction.next, One64), reduction.maxN) = reduction.r
            /\ IF reduction.x = Zero64 THEN reduction.r = Zero64
               ELSE Reduce(Sub64(reduction.x, One64), reduction.maxN)
                        = Sub64(reduction.r, One64)
            /\ IF reduction.next = TwoTo32 THEN reduction.r = Sub64(b, One64)
               ELSE Reduce(reduction.next, reduction.maxN)
                        = Add64(reduction.r, One64)
            /\ Less64(Mul64(Sub64(n, One64), b), TwoTo32)
            /\ Less64(TwoTo32, Mul64(Add64(n, One64), b))
            /\ DividesTwoTo32(b) => Mul64(n, b) = TwoTo32
            /\ ~DividesTwoTo32(b) =>
                /\ reduction.r = Zero64 => Less64(TwoTo32, Mul64(n, b))
                /\ reduction.r = Sub64(b, One64) => Less64(Mul64(n, b), TwoTo32)

\* the benchmark's bound 10, which does not divide 2^32: the result 9 has
\* 429496729 inputs, one fewer than the result 0
C23_Witness ==
    /\ reduction.pc = "counted"
    /\ reduction.maxN = I64(FALSE, W(0, 0, 0, 10))
    /\ reduction.r = W(0, 0, 0, 9)
    /\ Sub64(reduction.next, reduction.x) = W(0, 0, \h1999, \h9999)

====
